---------------------------- MODULE Spec2Model ----------------------------
(***************************************************************************)
(* Search & Replace for the block editor: the search/replace pass of       *)
(* src/src/core/app.tsx (replace, recursivelyReplace,                      *)
(* replaceBlockAttribute, replaceTableContent) over a tree of blocks.      *)
(*                                                                         *)
(* A text is a sequence of one-character strings.  An attribute value is   *)
(* a record: [kind |-> "string", text |-> t] for a plain string and        *)
(* [kind |-> "rich", originalHTML |-> t] for a rich-text object whose raw  *)
(* markup is t (t non-empty); an absent attribute is a key that is not in  *)
(* the DOMAIN of the attributes record (JavaScript's undefined).           *)
(***************************************************************************)
EXTENDS Naturals, Sequences, FiniteSets

VARIABLES
  blocks,          \* the block-editor store: clientId -> block
  roots,           \* getBlocks(): the clientIds of the top-level blocks, in order
  isModalVisible,  \* useState(false), app.tsx:24
  searchInput,     \* useState(''), app.tsx:25
  replaceInput,    \* useState(''), app.tsx:26
  caseSensitive,   \* useState(false), app.tsx:29
  context,         \* useState(false), app.tsx:30
  replacements,    \* useState(0), app.tsx:23
  matches,         \* useState(new Set()), app.tsx:27: a Set in insertion order
  requests,        \* the updateBlockAttributes calls of the last handler, in order
  visited,         \* the clientIds recursivelyReplace was called on by the last handler
  assigned,        \* the assignments the last handler made to objects of the store
  passKind,        \* how the last handler's pass ended: none, empty, done, fault
  prev,            \* the store as it was when the last handler began
  lastCommit,      \* the arguments of the latest pass run with context = true
  commits          \* how many times the Replace button was clicked

vars == <<blocks, roots, isModalVisible, searchInput, replaceInput, caseSensitive,
          context, replacements, matches, requests, visited, assigned, passKind,
          prev, lastCommit, commits>>

-----------------------------------------------------------------------------
(* Characters. *)

LowerCase == <<"a","b","c","d","e","f","g","h","i","j","k","l","m",
               "n","o","p","q","r","s","t","u","v","w","x","y","z">>

UpperCase == <<"A","B","C","D","E","F","G","H","I","J","K","L","M",
               "N","O","P","Q","R","S","T","U","V","W","X","Y","Z">>

Digits == {"0","1","2","3","4","5","6","7","8","9"}

\* \w of a JavaScript regular expression: [A-Za-z0-9_]
WordChars ==
  {LowerCase[i] : i \in DOMAIN LowerCase} \cup {UpperCase[i] : i \in DOMAIN UpperCase}
    \cup Digits \cup {"_"}

\* The canonical form the 'i' flag compares characters in (upper case).
Canonicalize(c) ==
  IF \E i \in DOMAIN LowerCase : LowerCase[i] = c
    THEN UpperCase[CHOOSE i \in DOMAIN LowerCase : LowerCase[i] = c]
    ELSE c

-----------------------------------------------------------------------------
(* The pattern of app.tsx:156-159,                                         *)
(*   new RegExp(`(?<!<[^>]*?)\\b${searchInput}\\b(?![^<]*?>)`, 'g' | 'gi') *)
(* as the record [source |-> searchInput, ignoreCase |-> BOOLEAN].  The    *)
(* search texts of the model hold no regular-expression metacharacter, so  *)
(* ${searchInput} matches itself, character by character.                  *)

isCaseSensitive == FALSE

NewPattern(search, cs) ==
  [source |-> search, ignoreCase |-> ~(isCaseSensitive \/ cs)]

\* (?<!<[^>]*?) looked at from the character at k backwards: <[^>]*? matches
\* the text that ends at k iff, going back from k, a '<' comes before any '>'.
RECURSIVE LookBehindMatches(_, _)
LookBehindMatches(t, k) ==
  IF k = 0 THEN FALSE
  ELSE IF t[k] = "<" THEN TRUE
  ELSE IF t[k] = ">" THEN FALSE
  ELSE LookBehindMatches(t, k - 1)

\* The pattern without its lookahead.
LookAheadNever(t, k) == FALSE

\* (?![^<]*?>) looked at from the character at k onwards: [^<]*?> matches the
\* text that starts at k iff, going on from k, a '>' comes before any '<'.
RECURSIVE LookAheadMatches(_, _)
LookAheadMatches(t, k) ==
  IF k > Len(t) THEN FALSE
  ELSE IF t[k] = ">" THEN TRUE
  ELSE IF t[k] = "<" THEN FALSE
  ELSE LookAheadMatches(t, k + 1)

IsWordChar(t, k) == k >= 1 /\ k <= Len(t) /\ t[k] \in WordChars

\* \b between the characters at k - 1 and k.
WordBoundary(t, k) == IsWordChar(t, k - 1) # IsWordChar(t, k)

SameChar(a, b, ignoreCase) ==
  IF ignoreCase THEN Canonicalize(a) = Canonicalize(b) ELSE a = b

\* ${searchInput} at k.
SourceAt(t, k, pattern) ==
  /\ k + Len(pattern.source) - 1 <= Len(t)
  /\ \A j \in 1..Len(pattern.source) :
       SameChar(t[k + j - 1], pattern.source[j], pattern.ignoreCase)

\* The whole pattern matches at k.
MatchAt(t, k, pattern) ==
  /\ ~LookBehindMatches(t, k - 1)
  /\ WordBoundary(t, k)
  /\ SourceAt(t, k, pattern)
  /\ WordBoundary(t, k + Len(pattern.source))
  /\ ~LookAheadMatches(t, k + Len(pattern.source))

\* StringReplaceFrom without the g flag: only the first match is replaced.
RECURSIVE StringReplaceFirst(_, _, _, _)
StringReplaceFirst(t, k, pattern, text) ==
  IF k > Len(t) THEN [out |-> <<>>, n |-> 0]
  ELSE IF MatchAt(t, k, pattern)
    THEN [out |-> text \o SubSeq(t, k + Len(pattern.source), Len(t)), n |-> 1]
    ELSE LET r == StringReplaceFirst(t, k + 1, pattern, text)
         IN  [out |-> <<t[k]>> \o r.out, n |-> r.n]

\* oldString.replace(pattern, () => { ...; return text; }) with the g flag:
\* the matches are taken from the left, each starting where the one before
\* ended; out is the new string and n the number of calls of the callback.
RECURSIVE StringReplaceFrom(_, _, _, _)
StringReplaceFrom(t, k, pattern, text) ==
  IF k > Len(t) THEN [out |-> <<>>, n |-> 0]
  ELSE IF MatchAt(t, k, pattern)
    THEN LET r == StringReplaceFrom(t, k + Len(pattern.source), pattern, text)
         IN  [out |-> text \o r.out, n |-> r.n + 1]
    ELSE LET r == StringReplaceFrom(t, k + 1, pattern, text)
         IN  [out |-> <<t[k]>> \o r.out, n |-> r.n]

StringReplace(t, pattern, text) == StringReplaceFrom(t, 1, pattern, text)

-----------------------------------------------------------------------------
(* Attribute values. *)

Str(t) == [kind |-> "string", text |-> t]

Rich(t) == [kind |-> "rich", originalHTML |-> t]

\* JavaScript truthiness of a value: an object is truthy, a string is truthy
\* iff it is not empty.
Truthy(v) == v.kind = "rich" \/ v.text # <<>>

\* v.originalHTML || v
EffectiveText(v) == IF v.kind = "rich" THEN v.originalHTML ELSE v.text

\* getAllowedBlocks(): the names of the blocks of the 'text' category.
getAllowedBlocks ==
  {"core/paragraph", "core/heading", "core/quote", "core/pullquote",
   "core/details", "core/table"}

-----------------------------------------------------------------------------
(* One pass threads an accumulator through the traversal:                  *)
(*   replacements, matches  the state setReplacements and addMatchValue    *)
(*                          build up (functional updates, applied in order)*)
(*   requests               the updateBlockAttributes calls so far         *)
(*   visited                the blocks recursivelyReplace was called on    *)
(*   assigned               the assignments made to rows and cells of the  *)
(*                          store (row.cells = ..., cell.content = ...)    *)
(*   blocks                 the store: every request is applied to it as   *)
(*                          it is dispatched, and the cells the table code *)
(*                          assigns to are the store's own objects         *)
(*   fault                  a TypeError was thrown: nothing catches it, so *)
(*                          every later step of the pass is skipped        *)

\* NewPass without the reset of the count and of the matches.
NewPassKeepingState(store) ==
  [replacements |-> replacements, matches |-> matches, requests |-> <<>>,
   visited |-> <<>>, assigned |-> <<>>, blocks |-> store, fault |-> FALSE]

NewPass(store) ==
  [replacements |-> 0, matches |-> <<>>, requests |-> <<>>, visited |-> <<>>,
   assigned |-> <<>>, blocks |-> store, fault |-> FALSE]

\* addMatchValue without the Set: the value is appended at every call.
addMatchValueAgain(set, value) == Append(set, value)

\* addMatchValue: newSet.add(value) on a Set, which keeps insertion order
\* and holds a value once.
addMatchValue(set, value) ==
  IF \E i \in DOMAIN set : set[i] = value THEN set ELSE Append(set, value)

\* n calls of addMatchValue(value).
RECURSIVE AddMatchValues(_, _, _)
AddMatchValues(set, value, n) ==
  IF n = 0 THEN set ELSE AddMatchValues(addMatchValue(set, value), value, n - 1)

\* OnMatches counting a field with matches once, not once per match.
OnMatchesOncePerField(acc, oldString, n) ==
  IF n = 0 THEN acc
  ELSE [acc EXCEPT !.replacements = @ + 1,
                   !.matches = AddMatchValues(@, oldString, n)]

\* The callback of oldString.replace, called once per match:
\* setReplacements((items) => items + 1); addMatchValue(oldString).
OnMatches(acc, oldString, n) ==
  [acc EXCEPT !.replacements = @ + n,
              !.matches = AddMatchValues(@, oldString, n)]

\* dispatch('core/block-editor').updateBlockAttributes(clientId, {attribute: value})
updateBlockAttributes(acc, clientId, attribute, value) ==
  [acc EXCEPT
     !.requests = Append(@, [clientId |-> clientId, attribute |-> attribute,
                             value |-> value]),
     !.blocks = [@ EXCEPT ![clientId] =
                   [@ EXCEPT !.attributes = [@ EXCEPT ![attribute] = value]]]]

\* DispatchIfContext without its test of the context.
DispatchAlways(acc, ctx, clientId, attribute, value) ==
  [acc EXCEPT
     !.requests = Append(@, [clientId |-> clientId, attribute |-> attribute,
                             value |-> value]),
     !.blocks = [@ EXCEPT ![clientId] =
                   [@ EXCEPT !.attributes = [@ EXCEPT ![attribute] = value]]]]

\* if (args.context) { dispatch(...).updateBlockAttributes(clientId, property) }
DispatchIfContext(acc, ctx, clientId, attribute, value) ==
  IF ctx THEN updateBlockAttributes(acc, clientId, attribute, value) ELSE acc

\* replaceBlockAttribute without the edge case of app.tsx:251-258.
NoValueEdgeCase(acc, attributes, ctx, clientId, newString) == acc

\* The edge case of app.tsx:251-258: a truthy attributes.value is set to
\* newString too, and counted once more.
ValueEdgeCase(acc, attributes, ctx, clientId, newString) ==
  IF "value" \in DOMAIN attributes /\ Truthy(attributes.value)
    THEN [DispatchIfContext(acc, ctx, clientId, "value", Str(newString))
            EXCEPT !.replacements = @ + 1]
    ELSE acc

replaceBlockAttribute(acc, clientId, pattern, text, ctx, attribute) ==
  LET element == acc.blocks[clientId] IN
  IF "attributes" \notin DOMAIN element \/ attribute \notin DOMAIN element.attributes
    THEN acc
    ELSE
      LET attributes == element.attributes
          oldString  == EffectiveText(attributes[attribute])
          r          == StringReplace(oldString, pattern, text)
          counted    == OnMatches(acc, oldString, r.n)
      IN  IF r.out = oldString THEN counted
          ELSE ValueEdgeCase(
                 DispatchIfContext(counted, ctx, clientId, attribute, Str(r.out)),
                 attributes, ctx, clientId, r.out)

-----------------------------------------------------------------------------
(* replaceTableContent.  A table's body, head and foot are sequences of    *)
(* rows, a row is [cells |-> sequence of cells], a cell is a record with a *)
(* tag and, unless it is undefined, a content.                             *)

\* cell.content = newCellContent: an assignment to the store's own cell.
AssignCellContent(acc, clientId, section, r, c, newCellContent) ==
  [acc EXCEPT !.blocks[clientId].attributes[section][r].cells[c].content =
                Str(newCellContent),
              !.assigned = Append(@, [clientId |-> clientId, section |-> section,
                                      row |-> r, property |-> "content",
                                      cell |-> c])]

\* row.cells = row.cells.map(...): the row of the store gets a new array
\* holding the cells the callback returned, which are the row's own cells.
AssignRowCells(acc, clientId, section, r) ==
  [acc EXCEPT !.assigned = Append(@, [clientId |-> clientId, section |-> section,
                                      row |-> r, property |-> "cells",
                                      cell |-> 0])]

\* The callback of row.cells.map, app.tsx:299-321 (341-355, 375-389).
\* cell.content || cell.content.originalHTML throws a TypeError when
\* cell.content is undefined, and is falsy when it is the empty string.
ReplaceCell(acc, clientId, section, r, c, pattern, text, ctx) ==
  LET cell == acc.blocks[clientId].attributes[section][r].cells[c] IN
  IF "content" \notin DOMAIN cell THEN [acc EXCEPT !.fault = TRUE]
  ELSE IF ~Truthy(cell.content) THEN acc
  ELSE
    LET oldCellContent == EffectiveText(cell.content)
        res            == StringReplace(oldCellContent, pattern, text)
        counted        == OnMatches(acc, oldCellContent, res.n)
    IN  IF res.out # oldCellContent /\ ctx
          THEN AssignCellContent(counted, clientId, section, r, c, res.out)
          ELSE counted

\* row.cells.map(...) from cell c on.
RECURSIVE MapCells(_, _, _, _, _, _, _, _)
MapCells(acc, clientId, section, r, c, pattern, text, ctx) ==
  IF acc.fault \/ c > Len(acc.blocks[clientId].attributes[section][r].cells)
    THEN acc
    ELSE MapCells(ReplaceCell(acc, clientId, section, r, c, pattern, text, ctx),
                  clientId, section, r, c + 1, pattern, text, ctx)

\* attributes.body.map(row => { if (row.cells) {...} return row; }) from row r on.
RECURSIVE MapRows(_, _, _, _, _, _, _)
MapRows(acc, clientId, section, r, pattern, text, ctx) ==
  IF acc.fault \/ r > Len(acc.blocks[clientId].attributes[section])
    THEN acc
    ELSE
      LET row    == acc.blocks[clientId].attributes[section][r]
          mapped == MapCells(acc, clientId, section, r, 1, pattern, text, ctx)
          done   == IF "cells" \in DOMAIN row
                      THEN IF mapped.fault THEN mapped
                           ELSE AssignRowCells(mapped, clientId, section, r)
                      ELSE acc
      IN  MapRows(done, clientId, section, r + 1, pattern, text, ctx)

\* if (attributes.body) { const updatedBody = attributes.body.map(...);
\*   if (args.context) { updateBlockAttributes(clientId, { body: updatedBody }) } }
\* and the same for head and foot.
ReplaceSection(acc, clientId, section, pattern, text, ctx) ==
  IF acc.fault THEN acc
  ELSE IF "attributes" \notin DOMAIN acc.blocks[clientId]
    THEN [acc EXCEPT !.fault = TRUE]
  ELSE IF section \notin DOMAIN acc.blocks[clientId].attributes THEN acc
  ELSE
    LET mapped == MapRows(acc, clientId, section, 1, pattern, text, ctx) IN
    IF mapped.fault THEN mapped
    ELSE DispatchIfContext(mapped, ctx, clientId, section,
                           mapped.blocks[clientId].attributes[section])

\* Handle Table Caption Replacement, app.tsx:275-292.
ReplaceCaption(acc, clientId, pattern, text, ctx) ==
  LET element == acc.blocks[clientId] IN
  IF "attributes" \in DOMAIN element
       /\ "caption" \in DOMAIN element.attributes
       /\ Truthy(element.attributes.caption)
    THEN
      LET oldCaptionString == EffectiveText(element.attributes.caption)
          res              == StringReplace(oldCaptionString, pattern, text)
          counted          == OnMatches(acc, oldCaptionString, res.n)
      IN  IF res.out # oldCaptionString
            THEN DispatchIfContext(counted, ctx, clientId, "caption", Str(res.out))
            ELSE counted
    ELSE acc

replaceTableContent(acc, clientId, pattern, text, ctx) ==
  ReplaceSection(
    ReplaceSection(
      ReplaceSection(
        ReplaceCaption(acc, clientId, pattern, text, ctx),
        clientId, "body", pattern, text, ctx),
      clientId, "head", pattern, text, ctx),
    clientId, "foot", pattern, text, ctx)

-----------------------------------------------------------------------------
(* recursivelyReplace and replace. *)

\* switch (element.name), app.tsx:186-203
ReplaceByName(acc, clientId, pattern, text, ctx) ==
  LET name == acc.blocks[clientId].name IN
  IF name \in {"core/quote", "core/pullquote"}
    THEN replaceBlockAttribute(acc, clientId, pattern, text, ctx, "citation")
  ELSE IF name = "core/details"
    THEN replaceBlockAttribute(acc, clientId, pattern, text, ctx, "summary")
  ELSE IF name = "core/table"
    THEN replaceTableContent(acc, clientId, pattern, text, ctx)
  ELSE replaceBlockAttribute(acc, clientId, pattern, text, ctx, "content")

RECURSIVE recursivelyReplace(_, _, _, _, _)
RECURSIVE ForEachBlock(_, _, _, _, _, _)

\* ids.forEach((element) => recursivelyReplace(element, ...)) from index i on;
\* a TypeError thrown by one call ends the loop.
ForEachBlock(acc, ids, i, pattern, text, ctx) ==
  IF acc.fault \/ i > Len(ids) THEN acc
  ELSE ForEachBlock(recursivelyReplace(acc, ids[i], pattern, text, ctx),
                    ids, i + 1, pattern, text, ctx)

recursivelyReplace(acc, clientId, pattern, text, ctx) ==
  LET element == acc.blocks[clientId]
      entered == [acc EXCEPT !.visited = Append(@, clientId)]
      own     == IF element.name \in getAllowedBlocks
                   THEN ReplaceByName(entered, clientId, pattern, text, ctx)
                   ELSE entered
  IN  ForEachBlock(own, element.innerBlocks, 1, pattern, text, ctx)

\* The body of replace after its three set-state calls, app.tsx:150-163.
RunPass(store, top, search, text, cs, ctx) ==
  IF search = <<>> THEN NewPass(store)
  ELSE ForEachBlock(NewPass(store), top, 1, NewPattern(search, cs), text, ctx)

PassKindOf(search, acc) ==
  IF search = <<>> THEN "empty" ELSE IF acc.fault THEN "fault" ELSE "done"

-----------------------------------------------------------------------------
(* The texts, the search and replace inputs and the documents of the model. *)

tEmpty == <<>>
tFoo == <<"F","o","o">>
tfoo == <<"f","o","o">>
tbar == <<"b","a","r">>
ta == <<"a">>
tab == <<"a"," ","b">>
tabb == <<"a"," ","b"," ","b">>
tFoofoo == <<"F","o","o"," ","f","o","o">>
tFooTable == <<"F","o","o"," ","t","a","b","l","e">>
tFooSaidHi == <<"F","o","o"," ","s","a","i","d"," ","h","i">>
tBoldFoo == <<"<","b"," ","i","d","=","f","o","o",">","f","o","o","<","/","b",">">>

SearchInputs == {tFoo, tab}

ReplaceInputs == {tbar, ta}

Block(name, attributes, innerBlocks) ==
  [name |-> name, attributes |-> attributes, innerBlocks |-> innerBlocks]

Cell(content) == [tag |-> "td", content |-> content]

\* A cell whose content is undefined.
CellUndefined == [tag |-> "td"]

Row(cells) == [cells |-> cells]

\* A group (not a text block) holding a paragraph, after it a heading; the
\* group is the first top-level block.
DocParagraphs(content, heading) ==
  [roots  |-> <<2, 1>>,
   blocks |-> [id \in 1..3 |->
     CASE id = 2 -> Block("core/group", [layout |-> Str(tFoo)], <<3>>)
       [] id = 3 -> Block("core/paragraph", [content |-> content], <<>>)
       [] id = 1 -> Block("core/heading", [content |-> heading], <<>>)]]

\* A quote-like block with an inner paragraph.
DocQuote(name, attributes) ==
  [roots  |-> <<1>>,
   blocks |-> [id \in 1..2 |->
     CASE id = 1 -> Block(name, attributes, <<2>>)
       [] id = 2 -> Block("core/paragraph", [content |-> Rich(tfoo)], <<>>)]]

\* A details block with its summary and an inner paragraph, then an image.
DocDetails(summary) ==
  [roots  |-> <<1, 3>>,
   blocks |-> [id \in 1..3 |->
     CASE id = 1 -> Block("core/details", [summary |-> summary], <<2>>)
       [] id = 2 -> Block("core/paragraph", [content |-> Str(tabb)], <<>>)
       [] id = 3 -> Block("core/image", [caption |-> Str(tFoo)], <<>>)]]

\* A table, then a paragraph.
DocTable(attributes) ==
  [roots  |-> <<1, 2>>,
   blocks |-> [id \in 1..2 |->
     CASE id = 1 -> Block("core/table", attributes, <<>>)
       [] id = 2 -> Block("core/paragraph", [content |-> Str(tFoofoo)], <<>>)]]

\* A table on its own.
DocTableOnly(attributes) ==
  [roots  |-> <<1>>,
   blocks |-> [id \in 1..1 |-> Block("core/table", attributes, <<>>)]]

\* The table with the caption "Foo table" and the one cell "Foo".
FooTable ==
  [caption |-> Str(tFooTable), body |-> <<Row(<<Cell(Str(tFoo))>>)>>,
   head |-> <<>>, foot |-> <<>>]

ParagraphDocuments ==
  { DocParagraphs(Str(tfoo), Str(tFoo)),
    DocParagraphs(Rich(tFoofoo), Rich(tBoldFoo)),
    DocParagraphs(Str(tabb), Str(tEmpty)) }

\* The quote-like attributes {content: "Foo said hi", citation: "Foo",
\* value: "Foo"}.
FooQuote ==
  [content |-> Str(tFooSaidHi), citation |-> Str(tFoo), value |-> Str(tFoo)]

QuoteDocuments ==
  { DocQuote("core/pullquote", FooQuote),
    DocQuote("core/quote",
      [content |-> Str(tFooSaidHi), citation |-> Rich(tFoofoo), value |-> Str(tEmpty)]),
    DocQuote("core/pullquote", [citation |-> Str(tfoo), value |-> Str(tbar)]),
    DocQuote("core/quote", [citation |-> Str(tabb)]),
    DocQuote("core/pullquote", [value |-> Str(tFoo)]) }

TableDocuments ==
  { DocTableOnly(FooTable),
    DocTable(FooTable),
    DocTable([body |-> <<Row(<<Cell(Rich(tfoo)), Cell(Str(tbar))>>)>>,
              head |-> <<Row(<<Cell(Str(tabb))>>)>>,
              foot |-> <<Row(<<Cell(Str(tfoo))>>)>>]),
    DocTable([caption |-> Str(tEmpty),
              body |-> <<Row(<<Cell(Str(tEmpty)), Cell(Str(tbar))>>)>>]),
    DocTable([caption |-> Str(tFooTable),
              body |-> <<Row(<<Cell(Str(tFoo)), CellUndefined>>)>>,
              head |-> <<Row(<<Cell(Str(tfoo))>>)>>, foot |-> <<>>]),
    DocTable([body |-> <<Row(<<Cell(Str(tFoo))>>)>>,
              head |-> <<Row(<<CellUndefined>>), Row(<<Cell(Str(tfoo))>>)>>,
              foot |-> <<>>]),
    DocTable([caption |-> Rich(tFooTable),
              body |-> <<Row(<<CellUndefined, Cell(Str(tFoo))>>)>>,
              head |-> <<>>, foot |-> <<Row(<<Cell(Str(tfoo))>>)>>]) }

Documents ==
  ParagraphDocuments \cup QuoteDocuments \cup {DocDetails(Rich(tBoldFoo))}
    \cup TableDocuments

\* How many times the Replace button is clicked.
MaxCommits == 1

NoCommit == [search |-> <<>>, text |-> <<>>, caseSensitive |-> FALSE, replaced |-> 0]

-----------------------------------------------------------------------------
(* The component's handlers.  A change of searchInput or caseSensitive     *)
(* makes the effect of app.tsx:107-109 run replace(false) with the new     *)
(* values; the handler's action holds that pass.                           *)

InitWith(documents) ==
  /\ \E doc \in documents : blocks = doc.blocks /\ roots = doc.roots
  /\ isModalVisible = FALSE
  /\ searchInput = <<>>
  /\ replaceInput = <<>>
  /\ caseSensitive = FALSE
  /\ context = FALSE
  /\ replacements = 0
  /\ matches = <<>>
  /\ requests = <<>>
  /\ visited = <<>>
  /\ assigned = <<>>
  /\ passKind = "empty"
  /\ prev = blocks
  /\ lastCommit = NoCommit
  /\ commits = 0

Init == InitWith(Documents)

\* replace(ctx) as run with the given search text and case-sensitivity:
\* setContext(context); setReplacements(0); setMatches(new Set()); the pass.
replace(search, cs, ctx) ==
  \E acc \in {RunPass(blocks, roots, search, replaceInput, cs, ctx)} :
  /\ context' = ctx
  /\ replacements' = acc.replacements
  /\ matches' = acc.matches
  /\ blocks' = acc.blocks
  /\ requests' = acc.requests
  /\ visited' = acc.visited
  /\ assigned' = acc.assigned
  /\ passKind' = PassKindOf(search, acc)
  /\ prev' = blocks
  /\ lastCommit' = IF ctx /\ search # <<>>
                     THEN [search |-> search, text |-> replaceInput,
                           caseSensitive |-> cs, replaced |-> acc.replacements]
                     ELSE lastCommit

\* A handler that runs no pass leaves the store alone and calls no port.
NoPass ==
  /\ requests' = <<>>
  /\ visited' = <<>>
  /\ assigned' = <<>>
  /\ passKind' = "none"
  /\ prev' = blocks
  /\ UNCHANGED <<blocks, lastCommit>>

\* onChange of the Search field: setSearchInput(value), then the effect.
setSearchInputOf(inputs) ==
  \E value \in inputs \cup {<<>>} :
    /\ isModalVisible
    /\ value # searchInput
    /\ searchInput' = value
    /\ replace(value, caseSensitive, FALSE)
    /\ UNCHANGED <<roots, isModalVisible, replaceInput, caseSensitive, commits>>

setSearchInput == setSearchInputOf(SearchInputs)

\* The selectionchange listener: a non-empty selection outside the modal
\* becomes the search text.
handleSelection ==
  \E selectedText \in SearchInputs :
    /\ selectedText # searchInput
    /\ searchInput' = selectedText
    /\ replace(selectedText, caseSensitive, FALSE)
    /\ UNCHANGED <<roots, isModalVisible, replaceInput, caseSensitive, commits>>

\* openModal: handleSelection(); setIsModalVisible(true); setReplacements(0).
openModalOf(selections) ==
  \E selectedText \in selections \cup {<<>>} :
    /\ isModalVisible' = TRUE
    /\ IF selectedText # <<>> /\ selectedText # searchInput
         THEN /\ searchInput' = selectedText
              /\ replace(selectedText, caseSensitive, FALSE)
         ELSE /\ replacements' = 0
              /\ NoPass
              /\ UNCHANGED <<searchInput, context, matches>>
    /\ UNCHANGED <<roots, replaceInput, caseSensitive, commits>>

openModal == openModalOf(SearchInputs)

\* closeModal: the inputs, the matches and the count are reset; the effect
\* runs when searchInput was not empty.
closeModal ==
  /\ isModalVisible
  /\ isModalVisible' = FALSE
  /\ searchInput' = <<>>
  /\ replaceInput' = <<>>
  /\ IF searchInput # <<>>
       THEN \E acc \in {RunPass(blocks, roots, <<>>, <<>>, caseSensitive, FALSE)} :
            /\ context' = FALSE
            /\ replacements' = acc.replacements
            /\ matches' = acc.matches
            /\ blocks' = acc.blocks
            /\ requests' = acc.requests
            /\ visited' = acc.visited
            /\ assigned' = acc.assigned
            /\ passKind' = "empty"
            /\ prev' = blocks
            /\ UNCHANGED lastCommit
       ELSE /\ replacements' = 0
            /\ matches' = <<>>
            /\ NoPass
            /\ UNCHANGED context
  /\ UNCHANGED <<roots, caseSensitive, commits>>

\* onChange of the Replace field.
setReplaceInputOf(inputs) ==
  \E value \in inputs \cup {<<>>} :
    /\ isModalVisible
    /\ value # replaceInput
    /\ replaceInput' = value
    /\ NoPass
    /\ UNCHANGED <<roots, isModalVisible, searchInput, caseSensitive, context,
                   replacements, matches, commits>>

setReplaceInput == setReplaceInputOf(ReplaceInputs)

\* The Match Case toggle: setCaseSensitive(newValue), then the effect.
handleCaseSensitive ==
  /\ isModalVisible
  /\ caseSensitive' = ~caseSensitive
  /\ replace(searchInput, ~caseSensitive, FALSE)
  /\ UNCHANGED <<roots, isModalVisible, searchInput, replaceInput, commits>>

\* onClick of the Replace button: replace(true).
replaceClick ==
  /\ isModalVisible
  /\ commits < MaxCommits
  /\ commits' = commits + 1
  /\ replace(searchInput, caseSensitive, TRUE)
  /\ UNCHANGED <<roots, isModalVisible, searchInput, replaceInput, caseSensitive>>

Next ==
  \/ setSearchInput
  \/ handleSelection
  \/ openModal
  \/ closeModal
  \/ setReplaceInput
  \/ handleCaseSensitive
  \/ replaceClick

Spec == Init /\ [][Next]_vars

-----------------------------------------------------------------------------
(* The pattern on its own: a document of one paragraph whose content is    *)
(* any text over a small alphabet, or the text <a href="foo">foo</a>, and  *)
(* the handlers that search it and replace in it.                          *)

TagAlphabet == {"a", "A", "<", ">"}

\* The longest text over the alphabet.
MaxTextLen == 3

tExample == <<"<","a"," ","h","r","e","f","=","\"","f","o","o","\"",">",
              "f","o","o","<","/","a",">">>

tExampleBar == <<"<","a"," ","h","r","e","f","=","\"","f","o","o","\"",">",
                 "b","a","r","<","/","a",">">>

TagTexts == UNION {[1..n -> TagAlphabet] : n \in 0..MaxTextLen} \cup {tExample}

TagSearchInputs == {ta, tfoo}

TagReplaceInputs == {tbar}

DocText(t) ==
  [roots  |-> <<1>>,
   blocks |-> [id \in 1..1 |-> Block("core/paragraph", [content |-> Str(t)], <<>>)]]

InitTag == InitWith({DocText(t) : t \in TagTexts})

NextTag ==
  \/ openModalOf({})
  \/ setSearchInputOf(TagSearchInputs)
  \/ setReplaceInputOf(TagReplaceInputs)
  \/ handleCaseSensitive
  \/ replaceClick

SpecTag == InitTag /\ [][NextTag]_vars

-----------------------------------------------------------------------------
(* What a pass is expected to do, stated over the store as it was when the *)
(* pass began (prev) and independently of the traversal above.             *)

RECURSIVE Flatten(_)
Flatten(ss) == IF ss = <<>> THEN <<>> ELSE Head(ss) \o Flatten(Tail(ss))

\* The blocks below the given ones in document order: a block, then its
\* inner blocks, then its next sibling.
RECURSIVE DocumentOrder(_, _)
DocumentOrder(store, ids) ==
  IF ids = <<>> THEN <<>>
  ELSE <<Head(ids)>> \o DocumentOrder(store, store[Head(ids)].innerBlocks)
         \o DocumentOrder(store, Tail(ids))

\* One target field: the block, the attribute a request for it names, whether
\* it is a scalar attribute of a block that is not a table, whether its value
\* is defined, and its effective text.
Field(clientId, attribute, scalar, defined, text) ==
  [clientId |-> clientId, attribute |-> attribute, scalar |-> scalar,
   defined |-> defined, text |-> text]

ScalarField(store, clientId, attribute) ==
  IF attribute \in DOMAIN store[clientId].attributes
    THEN <<Field(clientId, attribute, TRUE, TRUE,
                 EffectiveText(store[clientId].attributes[attribute]))>>
    ELSE <<>>

CellField(clientId, section, cell) ==
  IF "content" \notin DOMAIN cell
    THEN <<Field(clientId, section, FALSE, FALSE, <<>>)>>
  ELSE IF Truthy(cell.content)
    THEN <<Field(clientId, section, FALSE, TRUE, EffectiveText(cell.content))>>
  ELSE <<>>

SectionFields(store, clientId, section) ==
  IF section \in DOMAIN store[clientId].attributes
    THEN LET rows == store[clientId].attributes[section] IN
         Flatten([r \in 1..Len(rows) |->
           Flatten([c \in 1..Len(rows[r].cells) |->
             CellField(clientId, section, rows[r].cells[c])])])
    ELSE <<>>

CaptionField(store, clientId) ==
  IF "caption" \in DOMAIN store[clientId].attributes
       /\ Truthy(store[clientId].attributes.caption)
    THEN <<Field(clientId, "caption", FALSE, TRUE,
                 EffectiveText(store[clientId].attributes.caption))>>
    ELSE <<>>

\* The resolved target fields of one block, in the order they are processed.
TargetFields(store, clientId) ==
  LET name == store[clientId].name IN
  IF name \notin getAllowedBlocks THEN <<>>
  ELSE IF name \in {"core/quote", "core/pullquote"}
    THEN ScalarField(store, clientId, "citation")
  ELSE IF name = "core/details" THEN ScalarField(store, clientId, "summary")
  ELSE IF name = "core/table"
    THEN CaptionField(store, clientId) \o SectionFields(store, clientId, "body")
           \o SectionFields(store, clientId, "head")
           \o SectionFields(store, clientId, "foot")
  ELSE ScalarField(store, clientId, "content")

\* The resolved target fields of all allowed blocks, in document order.
AllFields(store, top) ==
  LET order == DocumentOrder(store, top) IN
  Flatten([i \in 1..Len(order) |-> TargetFields(store, order[i])])

\* The fields before the first one whose value is undefined: the fields a
\* pass scans before a TypeError ends it.
ScannedFields(fields) ==
  LET bad == {i \in DOMAIN fields : ~fields[i].defined} IN
  IF bad = {} THEN fields
  ELSE SubSeq(fields, 1, (CHOOSE i \in bad : \A j \in bad : i <= j) - 1)

\* The starts of the non-overlapping matches of the pattern in t, taken from
\* the left.
MatchStarts(t, pattern) ==
  LET n == Len(pattern.source)
      sel[k \in 0..Len(t)] ==
        IF k = 0 THEN {}
        ELSE IF MatchAt(t, k, pattern) /\ \A j \in sel[k - 1] : j + n <= k
          THEN sel[k - 1] \cup {k}
          ELSE sel[k - 1]
  IN  IF n = 0 THEN {} ELSE sel[Len(t)]

NumMatches(t, pattern) == Cardinality(MatchStarts(t, pattern))

RECURSIVE SumOver(_, _, _)
\* The sum of f[i].n over i in 1..k, for a sequence f of records.
SumOver(f, k, pattern) ==
  IF k = 0 THEN 0 ELSE SumOver(f, k - 1, pattern) + NumMatches(f[k].text, pattern)

TotalMatches(fields, pattern) == SumOver(fields, Len(fields), pattern)

\* The pattern and the fields of the pass the last handler ran.
PassPattern == NewPattern(searchInput, caseSensitive)

PassRan == passKind \in {"done", "fault"}

PrevFields == AllFields(prev, roots)

\* The field's text is changed by the substitution.
Changed(field) ==
  field.defined /\ StringReplace(field.text, PassPattern, replaceInput).out # field.text

RequestsFor(clientId, attribute) ==
  {i \in DOMAIN requests :
     requests[i].clientId = clientId /\ requests[i].attribute = attribute}

-----------------------------------------------------------------------------
(* The claims. *)

\* The node of a request has at least one match in one of its target fields.
NodeHasMatch(clientId) ==
  \E i \in DOMAIN PrevFields :
    /\ PrevFields[i].clientId = clientId
    /\ NumMatches(PrevFields[i].text, PassPattern) > 0

\* C1: an updateBlockAttributes request is issued only if context = true and
\* the value requested for the attribute differs from the value the attribute
\* had before the pass; a node without a match gets no request.
C1_RequestOnlyIfChanged ==
  \A i \in DOMAIN requests :
    /\ context
    /\ requests[i].value
         # prev[requests[i].clientId].attributes[requests[i].attribute]
    /\ NodeHasMatch(requests[i].clientId)

\* C2: a pass run with context = false issues no updateBlockAttributes
\* request and leaves the store as it was, whatever the number of matches.
C2_SearchIssuesNoRequest ==
  ~context => requests = <<>> /\ blocks = prev

C2_Witness ==
  /\ ~context
  /\ passKind = "done"
  /\ replacements >= 2
  /\ \E i \in DOMAIN PrevFields : Changed(PrevFields[i])

\* C3 as stated: the count of a pass is the number of matches in the target
\* fields of all allowed blocks of the tree, and nothing else adds to it.
C3_CountIsTotalMatches ==
  PassRan => replacements = TotalMatches(PrevFields, PassPattern)

\* The scanned scalar fields that changed on a block whose attributes.value
\* is truthy: each is counted once more.
ValueIncrements(fields) ==
  {i \in DOMAIN fields :
     /\ fields[i].scalar
     /\ Changed(fields[i])
     /\ "value" \in DOMAIN prev[fields[i].clientId].attributes
     /\ Truthy(prev[fields[i].clientId].attributes.value)}

\* C3 as amended: the count of a pass is the number of matches in the target
\* fields the pass scans (all of them, or those before the table cell whose
\* undefined content ends the pass), plus one for every changed scalar field
\* of a block whose attributes.value is truthy.
C3_CountIsMatchesPlusValueEdgeCase ==
  PassRan =>
    replacements = TotalMatches(ScannedFields(PrevFields), PassPattern)
                     + Cardinality(ValueIncrements(ScannedFields(PrevFields)))

C3_Witness ==
  /\ passKind = "done"
  /\ TotalMatches(PrevFields, PassPattern) >= 1
  /\ replacements = TotalMatches(PrevFields, PassPattern) + 1

\* C4: in a pass with context = true every target field whose substituted
\* text differs from its text gets exactly one updateBlockAttributes request,
\* for its attribute and keyed by its block.
C4_OneRequestPerChangedField ==
  (PassRan /\ context) =>
    \A i \in DOMAIN PrevFields :
      Changed(PrevFields[i]) =>
        Cardinality(RequestsFor(PrevFields[i].clientId, PrevFields[i].attribute)) = 1

\* C4 restricted to the passes no TypeError ends.
C4_OneRequestPerChangedFieldUnlessFault ==
  (passKind = "done" /\ context) =>
    \A i \in DOMAIN PrevFields :
      Changed(PrevFields[i]) =>
        Cardinality(RequestsFor(PrevFields[i].clientId, PrevFields[i].attribute)) = 1

\* The fields whose value is defined.
DefinedFields(fields) == SelectSeq(fields, LAMBDA f : f.defined)

\* C5: a fault in the processing of one node does not end the pass: every
\* block is still visited, every defined field is still counted, and no
\* fault reaches the caller.
C5_FaultsAreIsolated ==
  (passKind # "none" /\ searchInput # <<>>) =>
    /\ passKind = "done"
    /\ visited = DocumentOrder(prev, roots)
    /\ replacements >= TotalMatches(DefinedFields(PrevFields), PassPattern)

\* C6: a pass with an empty searchInput leaves the count at 0 and the matches
\* empty, visits no block, issues no request and leaves the store as it was.
C6_EmptySearchIsNoOp ==
  (passKind # "none" /\ searchInput = <<>>) =>
    /\ replacements = 0
    /\ matches = <<>>
    /\ visited = <<>>
    /\ requests = <<>>
    /\ blocks = prev

\* An empty pass after a commit pass that replaced something.
C6_Witness ==
  /\ passKind = "empty"
  /\ searchInput = <<>>
  /\ lastCommit.replaced > 0
  /\ replacements = 0

\* The last handler ran a search pass with the search text and the case
\* setting of the latest commit pass, whose replace text holds no match.
SearchAfterCommit ==
  /\ PassRan
  /\ ~context
  /\ lastCommit.search = searchInput
  /\ lastCommit.caseSensitive = caseSensitive
  /\ NumMatches(lastCommit.text, PassPattern) = 0

\* C7 as stated: after a commit pass whose replace text holds no match of the
\* search text, a search pass for the same search text and case setting gives
\* count 0 and no matches.
C7_ReplaceIsIdempotent ==
  SearchAfterCommit => replacements = 0 /\ matches = <<>>

WordOnly(t) == \A i \in DOMAIN t : t[i] \in WordChars

\* C7 as amended: the same, for a search text made of word characters only.
C7_ReplaceIsIdempotentForWords ==
  (SearchAfterCommit /\ WordOnly(searchInput)) =>
    replacements = 0 /\ matches = <<>>

C7_Witness ==
  /\ SearchAfterCommit
  /\ WordOnly(searchInput)
  /\ passKind = "done"
  /\ lastCommit.replaced >= 2
  /\ replacements = 0

\* The whole-word occurrences of the search text in t.
Occurrences(t, pattern) ==
  {k \in 1..Len(t) :
     /\ SourceAt(t, k, pattern)
     /\ WordBoundary(t, k)
     /\ WordBoundary(t, k + Len(pattern.source))}

\* The occurrence at k is inside tag delimiters: a '<' before it with no '>'
\* in between, or a '>' after it with no '<' in between.
InsideTag(t, k, pattern) ==
  LET e == k + Len(pattern.source) IN
  \/ \E j \in 1..(k - 1) : t[j] = "<" /\ \A m \in (j + 1)..(k - 1) : t[m] # ">"
  \/ \E j \in e..Len(t) : t[j] = ">" /\ \A m \in e..(j - 1) : t[m] # "<"

VisibleOccurrences(t, pattern) ==
  {k \in Occurrences(t, pattern) : ~InsideTag(t, k, pattern)}

\* t from k on with the occurrences that start in at replaced by text, every
\* other character kept.
RECURSIVE ReplacedAt(_, _, _, _, _)
ReplacedAt(t, k, at, n, text) ==
  IF k > Len(t) THEN <<>>
  ELSE IF k \in at THEN text \o ReplacedAt(t, k + n, at, n, text)
  ELSE <<t[k]>> \o ReplacedAt(t, k + 1, at, n, text)

\* The text of the one paragraph of a document of SpecTag.
TextOf(store) == EffectiveText(store[1].attributes.content)

\* C8: an occurrence of the search text inside tag delimiters is neither
\* counted nor replaced and every whole-word occurrence in visible text is:
\* the count is the number of visible occurrences, a commit pass replaces
\* exactly these and keeps every other character; <a href="foo">foo</a>
\* searched for foo gives 1 match and, replaced with bar, <a href="foo">bar</a>.
C8_TagSafety ==
  PassRan =>
    LET t       == TextOf(prev)
        visible == VisibleOccurrences(t, PassPattern)
    IN  /\ replacements = Cardinality(visible)
        /\ TextOf(blocks) =
             IF context
               THEN ReplacedAt(t, 1, visible, Len(searchInput), replaceInput)
               ELSE t
        /\ (t = tExample /\ searchInput = tfoo) =>
             /\ replacements = 1
             /\ (context /\ replaceInput = tbar) => TextOf(blocks) = tExampleBar

C8_Witness ==
  /\ passKind = "done"
  /\ context
  /\ replacements = 1
  /\ Cardinality(Occurrences(TextOf(prev), PassPattern)) = 2
  /\ ~caseSensitive
  /\ TextOf(prev) = tExample
  /\ searchInput = tfoo
  /\ replaceInput = tbar
  /\ TextOf(blocks) = tExampleBar

\* The scanned fields in which the pass found at least one match.
MatchedFields ==
  SelectSeq(ScannedFields(PrevFields),
            LAMBDA f : NumMatches(f.text, PassPattern) > 0)

\* The matched fields whose text no earlier matched field has.
FirstOfText ==
  {i \in DOMAIN MatchedFields :
     \A j \in 1..(i - 1) : MatchedFields[j].text # MatchedFields[i].text}

\* C9: when a pass is over the matches hold exactly the distinct whole texts
\* of the fields in which this pass found a match, each once, in traversal
\* order, and nothing of an earlier pass; without a match the count is 0.
C9_LedgerIsThisPassesTexts ==
  passKind # "none" =>
    /\ Len(matches) = Cardinality(FirstOfText)
    /\ \A k \in DOMAIN matches :
         \E i \in FirstOfText :
           /\ Cardinality({j \in FirstOfText : j < i}) = k - 1
           /\ matches[k] = MatchedFields[i].text
    /\ (matches = <<>> => replacements = 0)

C9_Witness ==
  /\ passKind = "done"
  /\ Len(matches) = 2
  /\ Len(MatchedFields) = 3
  /\ Len(matches[2]) > Len(searchInput)
  /\ lastCommit.replaced > 0

\* The target fields of a table whose value is defined.
TableFields(clientId) == DefinedFields(TargetFields(prev, clientId))

\* C10: the caption and every cell of body, head and foot of a table are
\* matched and counted each on its own, and a commit pass requests the
\* caption and the section of a changed cell as separate mutations of the
\* table; the table with the caption "Foo table" and the one cell "Foo",
\* searched case-sensitively for "Foo", gives count 2.
C10_TableFieldsEachOnTheirOwn ==
  PassRan =>
    /\ \A id \in DOMAIN prev :
         prev[id].name = "core/table" =>
           /\ replacements >= TotalMatches(TableFields(id), PassPattern)
           /\ \A i \in DOMAIN TableFields(id) :
                /\ NumMatches(TableFields(id)[i].text, PassPattern) > 0
                     => \E k \in DOMAIN matches : matches[k] = TableFields(id)[i].text
                /\ (context /\ Changed(TableFields(id)[i]))
                     => Cardinality(RequestsFor(id, TableFields(id)[i].attribute)) = 1
    /\ (prev = DocTableOnly(FooTable).blocks /\ searchInput = tFoo /\ caseSensitive)
         => /\ replacements = 2
            /\ context => /\ Len(requests) >= 2
                          /\ requests[1].attribute = "caption"
                          /\ requests[2].attribute = "body"
                          /\ requests[1].clientId = requests[2].clientId

\* C10 restricted to the passes no TypeError ends.
C10_TableFieldsEachOnTheirOwnUnlessFault ==
  passKind = "done" => C10_TableFieldsEachOnTheirOwn

\* The quote-like blocks that carry a truthy value alongside a citation.
QuoteLikeWithValue ==
  {id \in DOMAIN prev :
     /\ prev[id].name \in {"core/quote", "core/pullquote"}
     /\ "citation" \in DOMAIN prev[id].attributes
     /\ "value" \in DOMAIN prev[id].attributes
     /\ Truthy(prev[id].attributes.value)}

CitationOf(clientId) == ScalarField(prev, clientId, "citation")[1]

\* The target fields of the blocks other than the given one.
FieldsOutside(clientId) ==
  SelectSeq(PrevFields, LAMBDA f : f.clientId # clientId)

\* What the commit pass did with the citation, the value and the content of
\* a quote-like block.
CitationAndValueUpdated(clientId) ==
  LET newString == StringReplace(CitationOf(clientId).text, PassPattern,
                                 replaceInput).out
      citation  == [clientId |-> clientId, attribute |-> "citation",
                    value |-> Str(newString)]
      value     == [clientId |-> clientId, attribute |-> "value",
                    value |-> Str(newString)]
  IN  /\ \E i \in DOMAIN requests :
           /\ i + 1 \in DOMAIN requests
           /\ requests[i] = citation
           /\ requests[i + 1] = value
      /\ Cardinality(RequestsFor(clientId, "citation")) = 1
      /\ Cardinality(RequestsFor(clientId, "value")) = 1
      /\ blocks[clientId].attributes.citation = Str(newString)
      /\ blocks[clientId].attributes.value = Str(newString)
      /\ replacements = TotalMatches(FieldsOutside(clientId), PassPattern)
                          + NumMatches(CitationOf(clientId).text, PassPattern) + 1
      /\ RequestsFor(clientId, "content") = {}
      /\ "content" \in DOMAIN prev[clientId].attributes
           => blocks[clientId].attributes.content = prev[clientId].attributes.content

PlaceOf(clientId) ==
  LET order == DocumentOrder(prev, roots) IN
  CHOOSE k \in DOMAIN order : order[k] = clientId

\* The place in document order of the first field with the given text.
FirstFieldWith(t) ==
  LET with == {i \in DOMAIN PrevFields : PrevFields[i].defined /\ PrevFields[i].text = t}
  IN  CHOOSE i \in with : \A j \in with : i <= j

\* C12: a pass calls recursivelyReplace on every block once, a block before
\* its inner blocks, these in their order, the top-level blocks in the order
\* of getBlocks; only blocks of an allowed type are requested or enter the
\* matches, the inner blocks of every block are visited whatever its type,
\* and the requests and the matches come in document order.
C12_DocumentOrderTraversal ==
  PassRan =>
    /\ visited = DocumentOrder(prev, roots)
    /\ \A i \in DOMAIN requests : prev[requests[i].clientId].name \in getAllowedBlocks
    /\ \A i, j \in DOMAIN requests :
         i < j => PlaceOf(requests[i].clientId) <= PlaceOf(requests[j].clientId)
    /\ \A i \in DOMAIN matches :
         \E k \in DOMAIN PrevFields :
           PrevFields[k].defined /\ PrevFields[k].text = matches[i]
    /\ \A i, j \in DOMAIN matches :
         i < j => FirstFieldWith(matches[i]) < FirstFieldWith(matches[j])

\* C12 restricted to the passes no TypeError ends.
C12_DocumentOrderTraversalUnlessFault ==
  passKind = "done" => C12_DocumentOrderTraversal

\* A finished commit pass over the group document: the paragraph inside the
\* group, which is not a text block, is visited and requested before the
\* heading after the group.
C12_InnerBlocksOfOtherTypes ==
  /\ passKind = "done"
  /\ context
  /\ visited = <<2, 3, 1>>
  /\ prev[2].name = "core/group"
  /\ Len(requests) = 2
  /\ requests[1].clientId = 3
  /\ requests[2].clientId = 1

\* C13: a pass, with either context, assigns to no row and no cell of the
\* store, and an attribute of a block differs from what it was when the pass
\* began only if a request of the pass set it to that value.
C13_StoreChangedOnlyByRequests ==
  PassRan =>
    /\ assigned = <<>>
    /\ \A id \in DOMAIN prev :
         \A a \in DOMAIN prev[id].attributes :
           blocks[id].attributes[a] # prev[id].attributes[a] =>
             \E i \in DOMAIN requests :
               requests[i] = [clientId |-> id, attribute |-> a,
                              value |-> blocks[id].attributes[a]]

\* A block's attributes other than a table's rows are changed by requests only.
C13_ScalarsChangedOnlyByRequests ==
  PassRan =>
    /\ \A i \in DOMAIN assigned : prev[assigned[i].clientId].name = "core/table"
    /\ \A id \in DOMAIN prev :
         prev[id].name # "core/table" =>
           \A a \in DOMAIN prev[id].attributes :
             blocks[id].attributes[a] # prev[id].attributes[a] =>
               \E i \in DOMAIN requests :
                 requests[i] = [clientId |-> id, attribute |-> a,
                                value |-> blocks[id].attributes[a]]

\* A pass that a TypeError ended after it assigned to a cell: the body of the
\* table differs from what it was, and no request was made for it.
C13_CellChangedWithoutRequest ==
  /\ passKind = "fault"
  /\ context
  /\ \E id \in DOMAIN prev :
       /\ prev[id].name = "core/table"
       /\ blocks[id].attributes.body # prev[id].attributes.body
       /\ RequestsFor(id, "body") = {}
       /\ \E i \in DOMAIN assigned : assigned[i].property = "content"

=============================================================================
